---------------------------- MODULE Spec2Model ----------------------------
(***************************************************************************)
(* A model of src/api/pdfProcessor.js: the PDFProcessor class (preset      *)
(* lookup, SKU sort-key derivation, crop geometry, page stamping) and the  *)
(* processPDF pipeline that sequences them.                                *)
(*                                                                         *)
(* A JavaScript string whose characters matter (a SKU, a margin) is a      *)
(* sequence of one-character strings; a string that is only compared as a  *)
(* whole (a platform name, a message) is a TLA+ string.                    *)
(***************************************************************************)
EXTENDS Integers, Sequences, FiniteSets, TLC

VARIABLES
  files,      \* the uploaded inputs, in filePaths order
  settings,   \* the settings record handed to processPDF
  fault,      \* the stage (if any) in which a library call throws in this run
  pc,         \* processPDF's position
  pdfDoc,     \* the local `pdfDoc`: the current document, a sequence of pages
  trace,      \* the stages executed so far, in order of execution
  pageData,   \* the local `pageData` of the sort stage, after sorting
  result,     \* what processPDF returned or threw
  lookups,    \* getPlatformPreset calls made, with what each returned
  calls,      \* margins handed to applyMarginCrop so far
  request,    \* the body of the POST /upload request being served, twice over
  turn,       \* which of the request's two submissions is being served
  responses   \* the responses of the /upload handler so far

vars == <<files, settings, fault, pc, pdfDoc, trace, pageData, result, lookups, calls,
          request, turn, responses>>

-----------------------------------------------------------------------------
(* Bounds of the model *)

MaxFiles == 2
MaxSortPages == 3
MaxLookups == 3
MaxCalls == 2

-----------------------------------------------------------------------------
(* JavaScript values *)

\* `undefined`, `null`, a string compared as a whole, a string of characters, a number
Undefined == [t |-> "undefined", s |-> "", cs |-> <<>>, n |-> 0]
Null == [t |-> "null", s |-> "", cs |-> <<>>, n |-> 0]
Str(s) == [t |-> "string", s |-> s, cs |-> <<>>, n |-> 0]
Chars(cs) == [t |-> "chars", s |-> "", cs |-> cs, n |-> 0]
Num(n) == [t |-> "number", s |-> "", cs |-> <<>>, n |-> n]

\* ToBoolean: undefined, "" and 0 are falsy
Truthy(v) ==
  CASE v.t \in {"undefined", "null"} -> FALSE
    [] v.t = "string" -> v.s # ""
    [] v.t = "chars" -> v.cs # <<>>
    [] v.t = "number" -> v.n # 0

\* a property key: String(v)
ToPropertyKey(v) == IF v.t = "undefined" THEN "undefined" ELSE v.s

Digits == <<"0", "1", "2", "3", "4", "5", "6", "7", "8", "9">>
Lower == <<"a", "b", "c", "d", "e", "f", "g", "h", "i", "j", "k", "l", "m",
           "n", "o", "p", "q", "r", "s", "t", "u", "v", "w", "x", "y", "z">>
Upper == <<"A", "B", "C", "D", "E", "F", "G", "H", "I", "J", "K", "L", "M",
           "N", "O", "P", "Q", "R", "S", "T", "U", "V", "W", "X", "Y", "Z">>

Range(f) == {f[i] : i \in DOMAIN f}
IndexOf(c, seq) == CHOOSE i \in DOMAIN seq : seq[i] = c
IsDigit(c) == c \in Range(Digits)
DigitValue(c) == IndexOf(c, Digits) - 1

\* String(n) for an integer n >= 0
RECURSIVE NumberToString(_)
NumberToString(n) ==
  IF n < 10 THEN <<Digits[n + 1]>>
  ELSE NumberToString(n \div 10) \o <<Digits[(n % 10) + 1]>>

\* String.prototype.padStart(len, ch)
RECURSIVE padStart(_, _, _)
padStart(cs, len, ch) == IF Len(cs) >= len THEN cs ELSE padStart(<<ch>> \o cs, len, ch)

\* String.prototype.toUpperCase on the characters a SKU can hold
UpperChar(c) == IF c \in Range(Lower) THEN Upper[IndexOf(c, Lower)] ELSE c
LowerChar(c) == IF c \in Range(Upper) THEN Lower[IndexOf(c, Upper)] ELSE c
toUpperCase(cs) == [i \in DOMAIN cs |-> UpperChar(cs[i])]

\* String.prototype.trim
RECURSIVE trimStart(_)
trimStart(cs) == IF cs # <<>> /\ Head(cs) = " " THEN trimStart(Tail(cs)) ELSE cs
RECURSIVE trimEnd(_)
trimEnd(cs) ==
  IF cs # <<>> /\ cs[Len(cs)] = " " THEN trimEnd(SubSeq(cs, 1, Len(cs) - 1)) ELSE cs
trim(cs) == trimEnd(trimStart(cs))

\* String.prototype.localeCompare with no locale argument: the root collation.
\* Primary weights order white space, then punctuation ("_" before "-"), then
\* digits, then letters without regard to case; among strings of equal primary
\* weights the tertiary weights order a lower-case letter before its capital.
CollationOrder == <<" ", "_", "-">> \o Digits \o Lower
PrimaryWeight(c) == IndexOf(LowerChar(c), CollationOrder)
TertiaryWeight(c) == IF c \in Range(Upper) THEN 1 ELSE 0

RECURSIVE CompareWeights(_, _)
CompareWeights(x, y) ==
  CASE x = <<>> /\ y = <<>> -> 0
    [] x = <<>> /\ y # <<>> -> -1
    [] x # <<>> /\ y = <<>> -> 1
    [] OTHER -> IF Head(x) < Head(y) THEN -1
                ELSE IF Head(x) > Head(y) THEN 1
                ELSE CompareWeights(Tail(x), Tail(y))

localeCompare(a, b) ==
  LET p == CompareWeights([i \in DOMAIN a |-> PrimaryWeight(a[i])],
                          [i \in DOMAIN b |-> PrimaryWeight(b[i])])
  IN IF p # 0 THEN p
     ELSE CompareWeights([i \in DOMAIN a |-> TertiaryWeight(a[i])],
                         [i \in DOMAIN b |-> TertiaryWeight(b[i])])

\* parseInt(string): leading white space, an optional sign, then the longest
\* run of decimal digits; NaN when there is no digit
NaN == [nan |-> TRUE, n |-> 0]
IntValue(n) == [nan |-> FALSE, n |-> n]

RECURSIVE DigitRun(_, _)
DigitRun(cs, acc) ==
  IF cs # <<>> /\ IsDigit(Head(cs))
  THEN DigitRun(Tail(cs), (acc * 10) + DigitValue(Head(cs)))
  ELSE acc

parseInt(v) ==
  CASE v.t = "number" -> IntValue(v.n)
    [] v.t = "chars" ->
         LET s == trimStart(v.cs)
             neg == s # <<>> /\ Head(s) = "-"
             body == IF s # <<>> /\ Head(s) \in {"-", "+"} THEN Tail(s) ELSE s
         IN IF body = <<>> \/ ~IsDigit(Head(body)) THEN NaN
            ELSE IntValue(IF neg THEN 0 - DigitRun(body, 0) ELSE DigitRun(body, 0))
    [] OTHER -> NaN

-----------------------------------------------------------------------------
(* PresetRegistry: CROP_PRESETS and getPlatformPreset *)

\* A preset object: cropBox and margin are <<>> when the object has no such
\* property.  `tag` tells a preset from the other objects a lookup can yield.
Preset(tag, cropBox, margin) == [tag |-> tag, cropBox |-> cropBox, margin |-> margin]
NoProperty == Preset("undefined", <<>>, <<>>)

\* the own properties of the CROP_PRESETS object literal; cropBox is <<x, y, width, height>>
CROP_PRESETS ==
  [k \in {"flipkart", "meesho", "amazon", "citymall", "custom"} |->
     CASE k = "flipkart" -> Preset("preset", <<272, 253, 346, 553>>, <<>>)
       [] k = "meesho" -> Preset("preset", <<>>, <<40>>)
       [] k = "amazon" -> Preset("preset", <<>>, <<45>>)
       [] k = "citymall" -> Preset("preset", <<>>, <<35>>)
       [] k = "custom" -> Preset("preset", <<>>, <<50>>)]

\* CROP_PRESETS is an object literal, so its prototype is Object.prototype and a
\* property read that finds no own property continues there.  These are the
\* properties Object.prototype defines; each is a function or an object.
ObjectPrototype ==
  [k \in {"constructor", "toString", "toLocaleString", "valueOf", "hasOwnProperty",
          "isPrototypeOf", "propertyIsEnumerable", "__proto__"} |->
     Preset("Object.prototype." \o k, <<>>, <<>>)]

\* obj[key] for an object literal obj
GetProperty(obj, key) ==
  IF key \in DOMAIN obj THEN obj[key]
  ELSE IF key \in DOMAIN ObjectPrototype THEN ObjectPrototype[key]
  ELSE NoProperty

\* return this.CROP_PRESETS[platform] || this.CROP_PRESETS.custom
getPlatformPreset(platform) ==
  LET found == GetProperty(CROP_PRESETS, ToPropertyKey(platform))
  IN IF found.tag # "undefined" THEN found ELSE CROP_PRESETS["custom"]

-----------------------------------------------------------------------------
(* Documents and pages *)

\* A page: where it came from (file, page of the file), the size of its media
\* box, its crop box (<<>> when it has none, else <<x, y, width, height>>),
\* what reading its text gives, and the text drawn on it by the stamps.
\* `text` is the outcome of pdfParse and of the three SKU patterns on the page:
\*   "throws"  pdfParse rejects;  "nomatch"  no pattern matches;
\*   "match"   a pattern matches, and `capture` is its group 1 (never empty).
Page(src, width, height, cropBox, kind, capture) ==
  [src |-> src, width |-> width, height |-> height, cropBox |-> cropBox,
   text |-> [kind |-> kind, capture |-> capture], stamps |-> <<>>]

\* PDFPage.getSize(): the width and height of the page's media box
getSize(page) == [width |-> page.width, height |-> page.height]

\* PDFPage.setCropBox(x, y, width, height)
setCropBox(page, x, y, width, height) == [page EXCEPT !.cropBox = <<x, y, width, height>>]

\* PDFPage.drawText
drawText(page, stamp) == [page EXCEPT !.stamps = Append(@, stamp)]

-----------------------------------------------------------------------------
(* SkuExtractor *)

\* extractSKUFromPage(pdfBytes, pageNumber): the page's SKU, or null when no
\* pattern matches or when reading the text throws (the catch returns null)
extractSKUFromPage(pdfBytes, pageNumber) ==
  LET text == pdfBytes[pageNumber].text
  IN CASE text.kind = "throws" -> Null
       [] text.kind = "nomatch" -> Null
       [] text.kind = "match" ->
            IF text.capture # <<>> THEN Chars(trim(text.capture)) ELSE Null

\* `zzz_no_sku_${String(i).padStart(4, '0')}`
FallbackKey(i) ==
  <<"z", "z", "z", "_", "n", "o", "_", "s", "k", "u", "_">>
    \o padStart(NumberToString(i), 4, "0")

\* one entry of pageData: { index: i, sku: sku || fallback }; i is zero-based
PageDatum(pdfBytes, i) ==
  LET sku == extractSKUFromPage(pdfBytes, i + 1)
  IN [index |-> i, sku |-> IF Truthy(sku) THEN sku.cs ELSE FallbackKey(i)]

\* a comparator that leaves out toUpperCase
CompareSku_CaseSensitive(a, b) == localeCompare(a.sku, b.sku)

\* the comparator handed to pageData.sort
CompareSku(a, b) == localeCompare(toUpperCase(a.sku), toUpperCase(b.sku))

\* Array.prototype.sort(cmp) is a stable sort: each element, in turn, goes
\* after the last element already placed that does not compare greater.
InsertStable(sorted, x) ==
  LET notGreater == {j \in DOMAIN sorted : CompareSku(sorted[j], x) <= 0}
      k == IF notGreater = {} THEN 0
           ELSE CHOOSE j \in notGreater : \A l \in notGreater : l <= j
  IN SubSeq(sorted, 1, k) \o <<x>> \o SubSeq(sorted, k + 1, Len(sorted))

RECURSIVE SortFrom(_, _, _)
SortFrom(arr, sorted, i) ==
  IF i > Len(arr) THEN sorted ELSE SortFrom(arr, InsertStable(sorted, arr[i]), i + 1)

sort(arr) == SortFrom(arr, <<>>, 1)

\* lines 119-137: pageData, filled page by page and then sorted
SortedPageData(doc) == sort([k \in DOMAIN doc |-> PageDatum(doc, k - 1)])

\* lines 141-148: the new document, one copied page per entry of pageData
CopySorted(doc, data) == [k \in DOMAIN data |-> doc[data[k].index + 1]]

-----------------------------------------------------------------------------
(* CropEngine *)

\* cropFlipkart(pdfDoc, cropBox): every page copied into a new document and
\* given the crop box of line 198; the cropBox parameter is not read
cropFlipkart(doc, cropBox) ==
  [k \in DOMAIN doc |-> setCropBox(doc[k], 165, 460, 265, 360)]

\* a guard that lets an empty rectangle through
MarginCropPage_AllowsEmpty(page, marginPx) ==
  IF marginPx.nan THEN page
  ELSE LET newWidth == page.width - (2 * marginPx.n)
           newHeight == page.height - (2 * marginPx.n)
       IN IF newWidth >= 0 /\ newHeight >= 0
          THEN setCropBox(page, marginPx.n, marginPx.n, newWidth, newHeight)
          ELSE page

\* a crop that measures the page by its current crop box, not its media box
MarginCropPage_FromCropBox(page, marginPx) ==
  LET width == IF page.cropBox = <<>> THEN page.width ELSE page.cropBox[3]
      height == IF page.cropBox = <<>> THEN page.height ELSE page.cropBox[4]
      newWidth == width - (2 * marginPx.n)
      newHeight == height - (2 * marginPx.n)
  IN IF ~marginPx.nan /\ newWidth > 0 /\ newHeight > 0
     THEN setCropBox(page, marginPx.n, marginPx.n, newWidth, newHeight)
     ELSE page

\* the body of applyMarginCrop's loop for one page; marginPx is parseInt's
\* result.  With NaN, newWidth and newHeight are NaN and the test is false.
MarginCropPage(page, marginPx) ==
  IF marginPx.nan THEN page
  ELSE LET size == getSize(page)
           newWidth == size.width - (2 * marginPx.n)
           newHeight == size.height - (2 * marginPx.n)
       IN IF newWidth > 0 /\ newHeight > 0
          THEN setCropBox(page, marginPx.n, marginPx.n, newWidth, newHeight)
          ELSE page

applyMarginCrop(doc, marginPx) == [k \in DOMAIN doc |-> MarginCropPage(doc[k], marginPx)]

-----------------------------------------------------------------------------
(* PageAnnotator *)

\* addDateTime: the text is the clock's, so only its place and size are kept
addDateTime(doc) ==
  [k \in DOMAIN doc |->
     drawText(doc[k], [kind |-> "datetime", text |-> <<>>, y |-> 10, size |-> 8])]

\* addCustomText: returns at once for a text that trims to nothing
addCustomText(doc, text) ==
  IF text = <<>> \/ trim(text) = <<>> THEN doc
  ELSE [k \in DOMAIN doc |->
          drawText(doc[k], [kind |-> "text", text |-> text,
                            y |-> getSize(doc[k]).height - 25, size |-> 12])]

-----------------------------------------------------------------------------
(* PipelineOrchestrator: processPDF, one action per stage *)

StageOrder == <<"load", "crop", "sort", "datetime", "text", "serialize">>

NoResult == [kind |-> "pending", bytes |-> <<>>, message |-> ""]

\* the message of the error a library call throws in a stage
StageError(stage) == "cannot " \o stage \o ": the PDF library threw"
NoPathError == "The \"path\" argument must be of type string. Received undefined"

\* a file is readable and loadable iff its error is ""
Readable(file) == file.error = ""

\* a catch that rethrows the error as it came
WrapError_Unwrapped(message) == message

\* lines 175-179: the catch of processPDF
WrapError(message) == "PDF processing failed: " \o message

Throw(message) ==
  /\ pc' = "failed"
  /\ result' = [kind |-> "error", bytes |-> <<>>, message |-> WrapError(message)]

\* a merge that puts each file's pages before those of the files before it
RECURSIVE MergePages_LastFileFirst(_, _)
MergePages_LastFileFirst(fs, k) ==
  IF k > Len(fs) THEN <<>> ELSE MergePages_LastFileFirst(fs, k + 1) \o fs[k].pages

\* lines 89-94: the pages of every file, file after file
RECURSIVE MergePages(_, _)
MergePages(fs, k) ==
  IF k > Len(fs) THEN <<>> ELSE fs[k].pages \o MergePages(fs, k + 1)

\* a Step 1 that merges whenever there are several files
MergeMode_IgnoresSetting == Len(files) > 1

\* line 86
MergeMode == settings.mergePdf /\ Len(files) > 1

\* the files Step 1 reads: all of them when merging, else filePaths[0]
FilesRead == IF MergeMode THEN files ELSE SubSeq(files, 1, 1)

\* lines 85-100
Load ==
  /\ pc = "load"
  /\ trace' = Append(trace, "load")
  /\ IF ~MergeMode /\ files = <<>>
       THEN Throw(NoPathError) /\ UNCHANGED pdfDoc
     ELSE IF \E k \in DOMAIN FilesRead : ~Readable(FilesRead[k])
       THEN LET bad == CHOOSE k \in DOMAIN FilesRead :
                         /\ ~Readable(FilesRead[k])
                         /\ \A j \in 1..(k - 1) : Readable(FilesRead[j])
            IN Throw(FilesRead[bad].error) /\ UNCHANGED pdfDoc
     ELSE IF fault = "load"
       THEN Throw(StageError("load")) /\ UNCHANGED pdfDoc
     ELSE /\ pdfDoc' = MergePages(FilesRead, 1)
          /\ pc' = "crop"
          /\ UNCHANGED result
  /\ UNCHANGED <<files, settings, fault, pageData, lookups, calls, request, turn, responses>>

\* settings.platform === 'flipkart'
IsFlipkart == settings.platform.t = "string" /\ settings.platform.s = "flipkart"

\* a fixed crop that gives way to a margin when one is set
FlipkartMode_OnlyWithoutMargin == IsFlipkart /\ ~Truthy(settings.margin)

\* line 106 and line 109: which crop Step 2 applies
FlipkartMode == IsFlipkart /\ getPlatformPreset(settings.platform).cropBox # <<>>
MarginMode ==
  /\ ~IsFlipkart
  /\ Truthy(settings.margin)
  /\ ~(settings.margin.t = "chars" /\ settings.margin.cs = <<"0">>)

\* lines 102-114
Crop ==
  /\ pc = "crop"
  /\ IF FlipkartMode \/ MarginMode
       THEN /\ trace' = Append(trace, "crop")
            /\ IF fault = "crop"
                 THEN Throw(StageError("crop")) /\ UNCHANGED pdfDoc
                 ELSE /\ pdfDoc' =
                           IF FlipkartMode
                             THEN cropFlipkart(pdfDoc,
                                    getPlatformPreset(settings.platform).cropBox)
                             ELSE applyMarginCrop(pdfDoc, parseInt(settings.margin))
                      /\ pc' = "sort"
                      /\ UNCHANGED result
       ELSE /\ pc' = "sort"
            /\ UNCHANGED <<trace, pdfDoc, result>>
  /\ UNCHANGED <<files, settings, fault, pageData, lookups, calls, request, turn, responses>>

\* a Step 5 that does not look at customText
CustomTextEnabled_IgnoresText == settings.addText

\* line 117, line 155 and line 163: the switches of Steps 3, 4 and 5
SortEnabled == settings.sortSku
DateTimeEnabled == settings.addDateTime
CustomTextEnabled == settings.addText /\ settings.customText # <<>>

\* lines 116-152
SortBySku ==
  /\ pc = "sort"
  /\ IF SortEnabled
       THEN /\ trace' = Append(trace, "sort")
            /\ IF fault = "sort"
                 THEN Throw(StageError("sort")) /\ UNCHANGED <<pdfDoc, pageData>>
                 ELSE /\ pageData' = SortedPageData(pdfDoc)
                      /\ pdfDoc' = CopySorted(pdfDoc, pageData')
                      /\ pc' = "datetime"
                      /\ UNCHANGED result
       ELSE /\ pc' = "datetime"
            /\ UNCHANGED <<trace, pdfDoc, pageData, result>>
  /\ UNCHANGED <<files, settings, fault, lookups, calls, request, turn, responses>>

\* lines 154-160
StampDateTime ==
  /\ pc = "datetime"
  /\ IF DateTimeEnabled
       THEN /\ trace' = Append(trace, "datetime")
            /\ IF fault = "datetime"
                 THEN Throw(StageError("datetime")) /\ UNCHANGED pdfDoc
                 ELSE /\ pdfDoc' = addDateTime(pdfDoc)
                      /\ pc' = "text"
                      /\ UNCHANGED result
       ELSE /\ pc' = "text"
            /\ UNCHANGED <<trace, pdfDoc, result>>
  /\ UNCHANGED <<files, settings, fault, pageData, lookups, calls, request, turn, responses>>

\* lines 162-168; addCustomText embeds its font only after its early return
StampCustomText ==
  /\ pc = "text"
  /\ IF CustomTextEnabled
       THEN /\ trace' = Append(trace, "text")
            /\ IF fault = "text" /\ trim(settings.customText) # <<>>
                 THEN Throw(StageError("text")) /\ UNCHANGED pdfDoc
                 ELSE /\ pdfDoc' = addCustomText(pdfDoc, settings.customText)
                      /\ pc' = "serialize"
                      /\ UNCHANGED result
       ELSE /\ pc' = "serialize"
            /\ UNCHANGED <<trace, pdfDoc, result>>
  /\ UNCHANGED <<files, settings, fault, pageData, lookups, calls, request, turn, responses>>

\* lines 170-173
Serialize ==
  /\ pc = "serialize"
  /\ trace' = Append(trace, "serialize")
  /\ IF fault = "serialize"
       THEN Throw(StageError("serialize"))
       ELSE /\ pc' = "done"
            /\ result' = [kind |-> "bytes", bytes |-> pdfDoc, message |-> ""]
  /\ UNCHANGED <<files, settings, fault, pdfDoc, pageData, lookups, calls, request, turn, responses>>

Next == Load \/ Crop \/ SortBySku \/ StampDateTime \/ StampCustomText \/ Serialize

-----------------------------------------------------------------------------
(* Direct calls of the two functions that are also callable on their own *)

\* a caller applies applyMarginCrop(pdfDoc, m) to the document it holds
CallApplyMarginCrop(m) ==
  /\ pc = "caller"
  /\ Len(calls) < MaxCalls
  /\ pdfDoc' = applyMarginCrop(pdfDoc, IntValue(m))
  /\ calls' = Append(calls, m)
  /\ UNCHANGED <<files, settings, fault, pc, trace, pageData, result, lookups, request, turn, responses>>

\* a caller asks getPlatformPreset(platform)
CallGetPlatformPreset(platform) ==
  /\ pc = "caller"
  /\ Len(lookups) < MaxLookups
  /\ lookups' = Append(lookups, [platform |-> platform,
                                 preset |-> getPlatformPreset(platform)])
  /\ UNCHANGED <<files, settings, fault, pc, pdfDoc, trace, pageData, result, calls, request, turn, responses>>

-----------------------------------------------------------------------------
(* Inputs *)

SeqsUpTo(S, lo, hi) == UNION {[1..n -> S] : n \in lo..hi}

\* page templates: a page without its place in a file
Template(width, height, cropBox, kind, capture) ==
  [width |-> width, height |-> height, cropBox |-> cropBox, kind |-> kind,
   capture |-> capture]

A4Label(capture) == Template(595, 842, <<>>, "match", capture)
A4NoSku == Template(595, 842, <<>>, "nomatch", <<>>)
A4Unreadable == Template(595, 842, <<>>, "throws", <<>>)
SmallCropped == Template(60, 200, <<5, 5, 50, 190>>, "nomatch", <<>>)
Square == Template(100, 100, <<>>, "match", <<"s", "q">>)

\* a file template: the error reading or loading it gives ("" for none) and its pages
FileTemplate(error, templates) == [error |-> error, pages |-> templates]

\* the files of a request, each page knowing its file and its place in it
MakeFiles(fts) ==
  [f \in DOMAIN fts |->
     [error |-> fts[f].error,
      pages |-> [i \in DOMAIN fts[f].pages |->
                   LET t == fts[f].pages[i]
                   IN Page(<<f, i>>, t.width, t.height, t.cropBox, t.kind, t.capture)]]]

Platforms ==
  {Str("flipkart"), Str("meesho"), Str("amazon"), Str("citymall"), Str("custom"),
   Str("unknown-platform"), Str(""), Str("constructor"), Str("toString"), Undefined}

Margins ==
  {Undefined, Num(0), Num(40), Chars(<<>>), Chars(<<"0">>), Chars(<<"0", "0">>),
   Chars(<<"4", "0">>), Chars(<<"5", "0">>), Chars(<<"4", "0", "0">>),
   Chars(<<"a", "b", "c">>), Chars(<<"1", "0", "p", "x">>), Chars(<<"-", "5">>)}

Texts == {<<>>, <<" ">>, <<"h", "i">>}

Settings(merge, platform, margin, sortOn, dateOn, textOn, text) ==
  [mergePdf |-> merge, platform |-> platform, margin |-> margin,
   sortSku |-> sortOn, addDateTime |-> dateOn, addText |-> textOn,
   customText |-> text]

Faults == {"none"} \cup Range(StageOrder)

\* no /upload request is being served
NoRequest ==
  [mergePdf |-> Undefined, addDateTime |-> Undefined, sortSku |-> Undefined,
   addText |-> Undefined, customText |-> Undefined, platform |-> Undefined,
   margins |-> <<>>]

StartRun ==
  /\ pc = "load"
  /\ pdfDoc = <<>>
  /\ trace = <<>>
  /\ pageData = <<>>
  /\ result = NoResult
  /\ lookups = <<>>
  /\ calls = <<>>
  /\ request = NoRequest
  /\ turn = 0
  /\ responses = <<>>

\* Runs of processPDF over every combination of the stage switches, with and
\* without a failing file or a failing library call
StageFiles ==
  {FileTemplate("ENOENT: no such file or directory", <<>>),
   FileTemplate("", <<A4Label(<<"s", "p", "_", "a">>)>>),
   FileTemplate("", <<SmallCropped, A4Unreadable>>)}

Init ==
  /\ files \in {MakeFiles(fts) : fts \in SeqsUpTo(StageFiles, 1, MaxFiles)}
  /\ \E merge, sortOn, dateOn, textOn \in BOOLEAN :
       \E crop \in {<<Str("flipkart"), Chars(<<"4", "0">>)>>,
                    <<Str("meesho"), Chars(<<"4", "0">>)>>,
                    <<Str("meesho"), Chars(<<"0">>)>>,
                    <<Str("custom"), Undefined>>} :
         \E text \in Texts :
           /\ textOn \/ text # <<" ">>
           /\ settings = Settings(merge, crop[1], crop[2], sortOn, dateOn, textOn, text)
  /\ fault \in Faults
  /\ StartRun

Spec == Init /\ [][Next]_vars

\* Runs of processPDF over the platforms, margins and page sizes, no call failing
GeomFiles ==
  {FileTemplate("", <<A4Label(<<"b">>)>>),
   FileTemplate("", <<SmallCropped, A4Label(<<"a">>)>>),
   FileTemplate("", <<Square>>)}

InitGeom ==
  /\ files \in {MakeFiles(fts) : fts \in SeqsUpTo(GeomFiles, 1, MaxFiles)}
  /\ \E merge, sortOn, stamp \in BOOLEAN :
       \E platform \in Platforms :
         \E margin \in Margins :
           settings = Settings(merge, platform, margin, sortOn, stamp, stamp,
                               <<"h", "i">>)
  /\ fault = "none"
  /\ StartRun

SpecGeom == InitGeom /\ [][Next]_vars

\* Runs of processPDF that sort one file whose pages carry every kind of SKU text
SortTemplates ==
  {A4Label(<<"a">>), A4Label(<<"A">>), A4Label(<<"b", " ">>),
   A4Label(<<"z", "z", "z", "z">>), A4Label(<<"z", "z", "z", "_", "p">>),
   A4Label(<<" ">>), A4NoSku, A4Unreadable}

InitSort ==
  /\ files \in {MakeFiles(<<FileTemplate("", ts)>>) :
                  ts \in SeqsUpTo(SortTemplates, 1, MaxSortPages)}
  /\ settings = Settings(FALSE, Str("custom"), Undefined, TRUE, FALSE, FALSE, <<>>)
  /\ fault = "none"
  /\ StartRun

SpecSort == InitSort /\ [][Next]_vars

\* applyMarginCrop called again and again on one document
CallerStart ==
  /\ files = <<>>
  /\ settings = Settings(FALSE, Undefined, Undefined, FALSE, FALSE, FALSE, <<>>)
  /\ fault = "none"
  /\ pc = "caller"
  /\ trace = <<>>
  /\ pageData = <<>>
  /\ result = NoResult
  /\ lookups = <<>>
  /\ calls = <<>>
  /\ request = NoRequest
  /\ turn = 0
  /\ responses = <<>>

CallMargins == {0, 10, 40, 50}

InitCrop ==
  /\ pdfDoc \in {MergePages(MakeFiles(fts), 1) : fts \in SeqsUpTo(GeomFiles, 1, MaxFiles)}
  /\ CallerStart

NextCrop == \E m \in CallMargins : CallApplyMarginCrop(m)

SpecCrop == InitCrop /\ [][NextCrop]_vars

\* getPlatformPreset called again and again
InitPreset ==
  /\ pdfDoc = <<>>
  /\ CallerStart

NextPreset == \E platform \in Platforms : CallGetPlatformPreset(platform)

SpecPreset == InitPreset /\ [][NextPreset]_vars

-----------------------------------------------------------------------------
(* The POST /upload handler, serving one request submitted twice, the two
   submissions differing in nothing but the margin field *)

\* req.body.<switch> === 'true'
IsTrue(v) == v.t = "string" /\ v.s = "true"

\* a || b
Or(a, b) == IF Truthy(a) THEN a ELSE b

\* lines 453-463: the settings record built from the body; keepInvoice and
\* multiOrders are set there too and read nowhere
UploadSettings(body, margin) ==
  Settings(IsTrue(body.mergePdf), Or(body.platform, Str("custom")),
           Or(margin, Chars(<<"5", "0">>)), IsTrue(body.sortSku),
           IsTrue(body.addDateTime), IsTrue(body.addText),
           Or(body.customText, Chars(<<>>)).cs)

\* line 470
TakesPresetMargin(st) ==
  ~Truthy(st.margin) \/ (st.margin.t = "chars" /\ st.margin.cs = <<"5", "0">>)

\* the error.message of the TypeError line 471 throws for a preset without margin
NoMarginError == "Cannot read properties of undefined (reading 'toString')"

\* lines 524-527 and lines 500-506: the two responses, with the bytes written
\* to the cropped/ directory for the download
Response(status, bytes, message) == [status |-> status, bytes |-> bytes, message |-> message]

NextSubmission ==
  /\ turn' = turn + 1
  /\ pc' = IF turn < Len(request.margins) THEN "upload" ELSE "served"

\* lines 446-475: up to the call of processPDF
UploadBegin ==
  /\ pc = "upload"
  /\ LET st == UploadSettings(request, request.margins[turn])
         preset == getPlatformPreset(st.platform)
     IN IF files = <<>>
          THEN /\ responses' = Append(responses, Response(400, <<>>, "No files uploaded"))
               /\ NextSubmission
               /\ UNCHANGED <<settings, pdfDoc, trace, pageData, result>>
        ELSE IF TakesPresetMargin(st) /\ preset.margin = <<>>
          THEN /\ responses' = Append(responses, Response(500, <<>>, NoMarginError))
               /\ NextSubmission
               /\ settings' = st
               /\ UNCHANGED <<pdfDoc, trace, pageData, result>>
        ELSE /\ settings' =
                  IF TakesPresetMargin(st)
                    THEN [st EXCEPT !.margin = Chars(NumberToString(preset.margin[1]))]
                    ELSE st
             /\ pc' = "load"
             /\ pdfDoc' = <<>>
             /\ trace' = <<>>
             /\ pageData' = <<>>
             /\ result' = NoResult
             /\ UNCHANGED <<turn, responses>>
  /\ UNCHANGED <<files, fault, lookups, calls, request>>

\* lines 477-506, and lines 508-528 when processPDF threw
UploadRespond ==
  /\ pc \in {"done", "failed"}
  /\ turn \in DOMAIN request.margins
  /\ responses' =
       Append(responses,
              IF pc = "done"
                THEN Response(200, result.bytes, "PDF processed successfully!")
                ELSE Response(500, <<>>, result.message))
  /\ NextSubmission
  /\ UNCHANGED <<files, settings, fault, pdfDoc, trace, pageData, result, lookups,
                 calls, request>>

UploadSwitches == {Undefined, Str("true")}
UploadPlatforms == {Undefined, Str("flipkart"), Str("meesho")}
UploadMargins == {Undefined, Chars(<<"0">>), Chars(<<"4", "0">>), Chars(<<"5", "0">>)}

InitUpload ==
  /\ files \in {MakeFiles(fts) : fts \in SeqsUpTo(GeomFiles, 1, MaxFiles)}
  /\ \E merge, sortOn \in UploadSwitches :
       \E platform \in UploadPlatforms :
         \E first, second \in UploadMargins :
           request = [mergePdf |-> merge, addDateTime |-> Undefined, sortSku |-> sortOn,
                      addText |-> Undefined, customText |-> Undefined,
                      platform |-> platform, margins |-> <<first, second>>]
  /\ settings = UploadSettings(NoRequest, Undefined)
  /\ fault = "none"
  /\ pc = "upload"
  /\ turn = 1
  /\ responses = <<>>
  /\ pdfDoc = <<>>
  /\ trace = <<>>
  /\ pageData = <<>>
  /\ result = NoResult
  /\ lookups = <<>>
  /\ calls = <<>>

NextUpload == UploadBegin \/ Next \/ UploadRespond

SpecUpload == InitUpload /\ [][NextUpload]_vars

-----------------------------------------------------------------------------
(* Claims *)

Ended == pc \in {"done", "failed"}
StageIndex(stage) == IndexOf(stage, StageOrder)
Ran(stage) == stage \in Range(trace)
Last(seq) == seq[Len(seq)]

\* the stages ran in the fixed order, none of them twice
InStageOrder ==
  \A a, b \in DOMAIN trace : a < b => StageIndex(trace[a]) < StageIndex(trace[b])

\* C1 as written: in every run of processPDF the stages that ran are in the
\* fixed order, none twice; load and serialize ran; sort ran iff sortSku, the
\* timestamp stamp iff addDateTime, the custom-text stamp iff addText and a
\* non-empty customText.
C1_EveryRunSerializes ==
  Ended =>
    /\ InStageOrder
    /\ Ran("load") /\ Ran("serialize")
    /\ Ran("sort") <=> settings.sortSku
    /\ Ran("datetime") <=> settings.addDateTime
    /\ Ran("text") <=> (settings.addText /\ settings.customText # <<>>)

\* C1 as amended: at every moment of every run the stages run so far are in the
\* fixed order, none twice, and load is the first; sort, the timestamp stamp and
\* the custom-text stamp run only when their setting asks for them; a run that
\* returns bytes ran load and serialize and every stage its settings ask for,
\* and the custom-text stage drew text iff customText is not all white space; a
\* run that failed stopped at the stage of the failure: the last stage it ran
\* is the one whose file or library call failed.
C1_StagesInOrder ==
  /\ InStageOrder
  /\ trace # <<>> => trace[1] = "load"
  /\ Ran("sort") => settings.sortSku
  /\ Ran("datetime") => settings.addDateTime
  /\ Ran("text") => settings.addText /\ settings.customText # <<>>
  /\ pc = "done" =>
       /\ Ran("load") /\ Ran("serialize")
       /\ settings.sortSku => Ran("sort")
       /\ settings.addDateTime => Ran("datetime")
       /\ (settings.addText /\ settings.customText # <<>>) => Ran("text")
       /\ \A k \in DOMAIN result.bytes :
            (\E j \in DOMAIN result.bytes[k].stamps :
               result.bytes[k].stamps[j].kind = "text")
              <=> (Ran("text") /\ trim(settings.customText) # <<>>)
  /\ pc = "failed" =>
       /\ trace # <<>>
       /\ \/ fault = Last(trace)
          \/ /\ Last(trace) = "load"
             /\ \E k \in DOMAIN FilesRead : ~Readable(FilesRead[k])

C1_AllStagesRan == pc = "done" /\ trace = StageOrder /\ result.bytes # <<>>

\* C2: with mergePdf = false and at least one input file, the output of a
\* successful run has as many pages as the first input file, and from the end
\* of load on no stage adds or drops a page.
C2_FirstFilePageCount ==
  (~settings.mergePdf /\ files # <<>>) =>
    /\ pc \in {"crop", "sort", "datetime", "text", "serialize", "done"} =>
         Len(pdfDoc) = Len(files[1].pages)
    /\ pc = "done" => Len(result.bytes) = Len(files[1].pages)

C2_TwoFilesUnmerged ==
  /\ pc = "done"
  /\ ~settings.mergePdf
  /\ Len(files) = 2
  /\ Len(files[1].pages) = 2 /\ Len(files[2].pages) = 1
  /\ Ran("crop") /\ Ran("sort")
  /\ Len(result.bytes) = 2

\* C3: with mergePdf = true the document load leaves has one page per page of
\* every input file, in input-file order and, within a file, in page order.
RECURSIVE SumOfLengths(_)
SumOfLengths(fs) ==
  IF fs = <<>> THEN 0 ELSE Len(Head(fs).pages) + SumOfLengths(Tail(fs))

C3_MergeOrder ==
  (pc = "crop" /\ settings.mergePdf) =>
    /\ Len(pdfDoc) = SumOfLengths(files)
    /\ \A k \in DOMAIN pdfDoc :
         /\ pdfDoc[k].src[1] \in DOMAIN files
         /\ pdfDoc[k].src[2] \in DOMAIN files[pdfDoc[k].src[1]].pages
         /\ pdfDoc[k] = files[pdfDoc[k].src[1]].pages[pdfDoc[k].src[2]]
    /\ \A a, b \in DOMAIN pdfDoc :
         a < b <=> \/ pdfDoc[a].src[1] < pdfDoc[b].src[1]
                   \/ /\ pdfDoc[a].src[1] = pdfDoc[b].src[1]
                      /\ pdfDoc[a].src[2] < pdfDoc[b].src[2]

C3_TwoFilesMerged ==
  /\ pc = "crop"
  /\ settings.mergePdf
  /\ Len(files) = 2
  /\ Len(files[1].pages) = 2
  /\ Len(pdfDoc) = 3

\* the document the sort stage was handed, rebuilt from the input files: in the
\* runs that sort, the crop before it moves no page
BeforeSort == MergePages(FilesRead, 1)

\* the sort key the code derives for the page at zero-based index i
KeyOf(doc, i) == PageDatum(doc, i).sku
HasSku(page) == page.text.kind = "match" /\ trim(page.text.capture) # <<>>

\* C4 as written: after the sort stage every page without an extracted SKU comes
\* after every page with one, whatever the text of the SKUs.
C4_NoSkuPagesLast ==
  (pc = "datetime" /\ Ran("sort")) =>
    \A a, b \in DOMAIN pdfDoc :
      (~HasSku(pdfDoc[a]) /\ HasSku(pdfDoc[b])) => b < a

\* case-insensitive lexicographic order of two keys: letters compare without
\* regard to case, a proper prefix comes first
KeyRank(key) == [i \in DOMAIN key |-> PrimaryWeight(key[i])]
SameKey(x, y) == KeyRank(x) = KeyRank(y)
KeyNotAfter(x, y) == CompareWeights(KeyRank(x), KeyRank(y)) <= 0

\* C5: the sort stage's output is the stable sort of its input by the
\* case-insensitive sort key: every input page exactly once, keys never
\* decreasing, pages of equal key in their input order.
C5_StableSortBySku ==
  (pc = "datetime" /\ Ran("sort")) =>
    /\ Len(pdfDoc) = Len(BeforeSort)
    /\ Len(pageData) = Len(BeforeSort)
    /\ {pageData[k].index : k \in DOMAIN pageData} = 0..(Len(BeforeSort) - 1)
    /\ \A k \in DOMAIN pdfDoc : pdfDoc[k] = BeforeSort[pageData[k].index + 1]
    /\ \A k \in DOMAIN pageData : pageData[k].sku = KeyOf(BeforeSort, pageData[k].index)
    /\ \A k, l \in DOMAIN pageData :
         k < l =>
           /\ KeyNotAfter(pageData[k].sku, pageData[l].sku)
           /\ SameKey(pageData[k].sku, pageData[l].sku) =>
                pageData[k].index < pageData[l].index

C5_TiesAndMoves ==
  /\ pc = "datetime" /\ Ran("sort")
  /\ Len(pdfDoc) = 3
  /\ pdfDoc # BeforeSort
  /\ \E k \in 1..2 :
       /\ SameKey(pageData[k].sku, pageData[k + 1].sku)
       /\ pageData[k].sku # pageData[k + 1].sku

\* the crop box line 198 sets
FlipkartCropBox == <<165, 460, 265, 360>>

\* C6: with platform "flipkart", whatever the margin and the page sizes, every
\* page carries the one fixed crop rectangle from the end of the crop stage on.
C6_FlipkartIgnoresMargin ==
  (IsFlipkart /\ pc \in {"sort", "datetime", "text", "serialize", "done"}) =>
    /\ Ran("crop")
    /\ \A k \in DOMAIN pdfDoc : pdfDoc[k].cropBox = FlipkartCropBox

C6_FlipkartWithMargin ==
  /\ IsFlipkart
  /\ pc = "sort"
  /\ settings.margin = Chars(<<"4", "0">>)
  /\ \E k \in DOMAIN pdfDoc : pdfDoc[k].width = 60 /\ pdfDoc[k].cropBox = FlipkartCropBox
  /\ \E k \in DOMAIN pdfDoc : pdfDoc[k].width = 595 /\ pdfDoc[k].cropBox = FlipkartCropBox

\* the page as the input file holds it
Original(page) == files[page.src[1]].pages[page.src[2]]

\* C7: in margin mode with an integer margin m, at the end of the crop stage a
\* page of width w and height h has crop box (m, m, w-2m, h-2m) if w-2m > 0 and
\* h-2m > 0, and else the crop box it came with; each page on its own.
C7_MarginCropPerPage ==
  (pc = "sort" /\ MarginMode /\ ~parseInt(settings.margin).nan) =>
    LET m == parseInt(settings.margin).n
    IN \A k \in DOMAIN pdfDoc :
         LET w == Original(pdfDoc[k]).width
             h == Original(pdfDoc[k]).height
         IN /\ pdfDoc[k].width = w /\ pdfDoc[k].height = h
            /\ IF w - (2 * m) > 0 /\ h - (2 * m) > 0
                 THEN pdfDoc[k].cropBox = <<m, m, w - (2 * m), h - (2 * m)>>
                 ELSE pdfDoc[k].cropBox = Original(pdfDoc[k]).cropBox

C7_OnePageSkipped ==
  /\ pc = "sort" /\ MarginMode
  /\ parseInt(settings.margin) = IntValue(40)
  /\ \E k \in DOMAIN pdfDoc : pdfDoc[k].cropBox = <<5, 5, 50, 190>>
  /\ \E k \in DOMAIN pdfDoc : pdfDoc[k].cropBox = <<40, 40, 515, 762>>

\* the second application of the same margin m
SameMarginAgain(m) == calls # <<>> /\ Last(calls) = m /\ calls' = Append(calls, m)
Croppable(page, m) == page.width - (2 * m) > 0 /\ page.height - (2 * m) > 0

\* C8 as written: applying the same margin m > 0 a second time leaves each
\* croppable page with a strictly narrower crop box than the first did.
C8_SecondCropNarrows ==
  [][\A m \in CallMargins :
       (m > 0 /\ SameMarginAgain(m)) =>
         \A k \in DOMAIN pdfDoc :
           Croppable(pdfDoc[k], m) => pdfDoc'[k].cropBox[3] < pdfDoc[k].cropBox[3]]_vars

\* C8 as amended: applying the same margin a second time changes no page, the
\* new box being computed from the size of the media box, which no crop
\* changes; and an application with margin 0 gives every page of positive size
\* the crop box (0, 0, w, h), whatever box it had.
C8_SecondCropChangesNothing ==
  [][/\ \A m \in CallMargins : SameMarginAgain(m) => pdfDoc' = pdfDoc
     /\ (Len(calls') = Len(calls) + 1 /\ Last(calls') = 0) =>
          \A k \in DOMAIN pdfDoc :
            pdfDoc'[k].cropBox = <<0, 0, pdfDoc[k].width, pdfDoc[k].height>>]_vars

C8_CroppedTwice ==
  /\ calls = <<40, 40>>
  /\ \E k \in DOMAIN pdfDoc : pdfDoc[k].cropBox = <<40, 40, 515, 762>>

\* the messages of the errors that processPDF's steps can meet in this run
OriginalMessages ==
  {files[f].error : f \in DOMAIN files} \cup {StageError(st) : st \in Range(StageOrder)}

\* a step other than the reading of a page's text fails in this run
OtherFailure ==
  \/ \E k \in DOMAIN FilesRead : ~Readable(FilesRead[k])
  \/ /\ fault \in Range(trace)
     /\ fault = "text" => trim(settings.customText) # <<>>

\* C9: a failure reading one page's text is absorbed (the page gets the fallback
\* key and the run goes on), any other failure ends the run with no bytes and
\* one error, "PDF processing failed: " followed by the original message; a run
\* ends with all its bytes or with that error, never both.
C9_ErrorPolicy ==
  /\ Ended <=> result.kind # "pending"
  /\ pc = "done" <=> result.kind = "bytes"
  /\ pc = "failed" <=> result.kind = "error"
  /\ pc = "done" => result.bytes = pdfDoc /\ result.message = "" /\ ~OtherFailure
  /\ pc = "failed" =>
       /\ result.bytes = <<>>
       /\ OtherFailure
       /\ \E m \in OriginalMessages :
            m # "" /\ result.message = "PDF processing failed: " \o m
  /\ (pc = "datetime" /\ Ran("sort")) =>
       \A k \in DOMAIN pageData :
         BeforeSort[pageData[k].index + 1].text.kind = "throws" =>
           pageData[k].sku = FallbackKey(pageData[k].index)

C9_TextFailureAbsorbed ==
  /\ pc = "done" /\ Ran("sort")
  /\ result.kind = "bytes"
  /\ \E k \in DOMAIN result.bytes : result.bytes[k].text.kind = "throws"

\* C10 as written: getPlatformPreset returns the preset of each of the five
\* keys and the custom preset, margin 50, for every other platform value.
C10_UnknownGivesCustom ==
  \A k \in DOMAIN lookups :
    LET key == ToPropertyKey(lookups[k].platform)
    IN IF lookups[k].platform.t = "string" /\ key \in DOMAIN CROP_PRESETS
         THEN lookups[k].preset = CROP_PRESETS[key]
         ELSE lookups[k].preset = Preset("preset", <<>>, <<50>>)

\* C11 as written: an upload with platform "flipkart" and valid PDFs ends the
\* same way, success or failure, and with the same bytes, whatever margin is
\* submitted, an absent margin and "50" included.
C11_UploadIgnoresMargin ==
  (request.platform = Str("flipkart") /\ Len(responses) = 2) =>
    /\ responses[1].status = responses[2].status
    /\ responses[1].bytes = responses[2].bytes

=============================================================================
